---- MODULE Spec2Model ----
(***************************************************************************)
(* Revalix+ property intelligence (app.py): ATTOM lookup, HCAD scrape,     *)
(* model-structured tables and the merge of the three sources.             *)
(*                                                                         *)
(* Python values are modelled as strings: None is the reserved string      *)
(* None, the empty string is "", every other string is non-empty (truthy). *)
(* A dict is a function over a finite set of keys; an argument of type     *)
(* dict | None is a record [some, map] whose some field is FALSE for None. *)
(***************************************************************************)
EXTENDS Naturals, Sequences, FiniteSets, TLC

VARIABLES
    \* ---- merge (build_identification / build_location) ----
    mpc,            \* "args" while the arguments are assembled, "done" after the call
    attom,          \* argument attom: dict
    scraped,        \* argument scraped: dict | None
    ai,             \* argument ai: dict | None
    harris,         \* argument harris: bool
    identification, \* value returned by build_identification
    location,       \* value returned by build_location
    target_fields,  \* argument target_fields of ai_fill_missing
    ai_text,        \* res.output_text of the model call in ai_fill_missing
    guesses,        \* value returned by ai_fill_missing
    \* ---- address normalization (normalize_address / enforce_user_zip) ----
    npc,            \* "start", "normalized", "passed" (to fetch_attom) or "raised"
    nvariant,       \* "Run": first variant of the script, "Start": second variant
    address,        \* the address typed by the user
    output_text,    \* res.output_text of the model call
    normalized,     \* the value bound to the name normalized
    \* ---- structured Markdown (parse_structured_sections) ----
    ppc,            \* "text" while the model's Markdown is written, "done" once parsed
    structured_md,  \* the structured Markdown: a sequence of "## " sections
    sections,       \* returned sections: section name -> rows of its Field/Value frame
    flat_kv,        \* returned flat_kv
    \* ---- one run of the script (a click on Run or on Start) ----
    rpc,            \* the statement the run is at, or "stopped", "crashed", "finished"
    rvariant,       \* "Run": first variant of the script, "Start": second variant
    address_input,  \* the text of the address box
    rnormalized,    \* normalized
    rattom,         \* attom
    structured,     \* structured_md: "None", "empty" or "text"
    driver,         \* the browser session: "none", "open" or "quit"
    trace,          \* the stages executed so far, in order
    ui,             \* the messages and widgets shown so far, in order
    failure,        \* the failure met by fetch_attom or the scrape, or "none"
    \* ---- enforce_user_zip, applied once and again ----
    zpc,            \* "args", "once" after the first call, "twice" after the second
    zoriginal,      \* argument original
    zcorrected,     \* argument corrected
    zresult,        \* value returned by enforce_user_zip(original, corrected)
    zagain,         \* value returned by enforce_user_zip(original, zresult)
    \* ---- the scroll-to-load loop of the scrape ----
    spc,            \* "loop" while the loop runs, "done" after the break
    height,         \* document.body.scrollHeight of the page
    settled,        \* TRUE once the page has stopped loading content
    last_h,         \* last_h (last in the second variant)
    new_h,          \* new_h (nh in the second variant)
    iterations      \* iterations of the loop body so far, counted up to MaxIterations

askVars == <<target_fields, ai_text, guesses>>

mergeVars == <<mpc, attom, scraped, ai, harris, identification, location, askVars>>

normVars == <<npc, nvariant, address, output_text, normalized>>

parseVars == <<ppc, structured_md, sections, flat_kv>>

runVars == <<rpc, rvariant, address_input, rnormalized, rattom, structured, driver,
             trace, ui, failure>>

zipVars == <<zpc, zoriginal, zcorrected, zresult, zagain>>

scrollVars == <<spc, height, settled, last_h, new_h, iterations>>

vars == <<mergeVars, normVars, parseVars, runVars, zipVars, scrollVars>>

-----------------------------------------------------------------------------
(* Bounds *)

\* entries held by the attom, scraped and ai arguments together
MaxEntries == 2

\* tokens of the model's output text
MaxText == 4

\* "## " sections of the structured Markdown
MaxSections == 2

\* table rows of the structured Markdown, over all sections
MaxRows == 2

-----------------------------------------------------------------------------
(* Python values *)

None == "<None>"

Truthy(v) == v # None /\ v # ""

\* "a or b" with the operands' priority reversed
PyOrSecond(a, b) == IF Truthy(b) THEN b ELSE a

\* a or b
PyOr(a, b) == IF Truthy(a) THEN a ELSE b

EmptyDict == [k \in {} |-> None]

\* d.get(k)
Get(d, k) == IF k \in DOMAIN d THEN d[k] ELSE None

NoneDict == [some |-> FALSE, map |-> EmptyDict]

\* bool(d) for d: dict | None
DictTruthy(d) == d.some /\ DOMAIN d.map # {}

\* (d or {})
OrEmpty(d) == IF DictTruthy(d) THEN d.map ELSE EmptyDict

Range(s) == {s[i] : i \in 1..Len(s)}

\* d[k] = v
Put(d, k, v) == [x \in DOMAIN d \cup {k} |-> IF x = k THEN v ELSE d[x]]

-----------------------------------------------------------------------------
(* Global fields *)

IDENTIFICATION_FIELDS ==
    << "Property ID", "Property Name", "Owner Name",
       "Property Type", "Property Subtype",
       "Ownership Type", "Occupancy Status",
       "Building Code / Permit ID" >>

LOCATION_FIELDS ==
    << "Address Line 1", "Street Name", "City", "County", "Township",
       "State", "Postal Code", "Latitude", "Longitude", "Facing Direction",
       "Neighborhood Type", "Landmark", "Legal Description", "Census Tract",
       "Market", "Submarket", "CBSA", "State Class Code", "Neighborhood Name",
       "Map Facet", "Key Map", "Tax District", "Tax Code", "Location Type" >>

ALL_FIELDS == IDENTIFICATION_FIELDS \o LOCATION_FIELDS

\* {f: None for f in IDENTIFICATION_FIELDS}, {f: None for f in LOCATION_FIELDS}
BlankIdentification == [f \in Range(IDENTIFICATION_FIELDS) |-> None]

BlankLocation == [f \in Range(LOCATION_FIELDS) |-> None]

\* keys of the dict fetch_attom returns
AttomKeys ==
    { "apn", "street_name", "city", "county", "state", "zipcode", "country",
      "latitude", "longitude", "property_type", "property_sub_type",
      "owner_name" }

-----------------------------------------------------------------------------
(* Strings and JSON text *)

(* A string is a sequence of tokens: a word or number (a run of \w          *)
(* characters), a blank " " or a comma ",".  A Python value with its type   *)
(* is a record [t, v]: t the type name, v the string of a str.              *)

PyStr(s) == [t |-> "str", v |-> s]
PyNone == [t |-> "NoneType", v |-> <<>>]
PyInt == [t |-> "int", v |-> <<"7">>]
\* a dict value, of which only the type and the emptiness are kept
PyDict(d) == [t |-> "dict", v |-> IF DOMAIN d = {} THEN <<>> ELSE <<"...">>]

IsStr(x) == x.t = "str"

\* truth value of a Python value
PyTruthy(x) ==
    CASE x.t = "NoneType" -> FALSE
      [] x.t = "int" -> TRUE
      [] OTHER -> x.v # <<>>

\* the string a model writes as the corrected address
CorrectedAddress ==
    <<"1", " ", "MAIN", " ", "ST", ",", " ", "HOUSTON", ",", " ", "TX", " ", "77002">>

(* The model's output text is a sequence of lexical tokens:                 *)
(*   "{" "}" ","   the JSON punctuation                                     *)
(*   "K"           the key "corrected_address" with its colon               *)
(*   "O"           the key "note" with its colon                            *)
(*   "S"           the JSON string holding CorrectedAddress                 *)
(*   "N"           null                                                     *)
(*   "I"           the number 7                                             *)
(*   "x"           text that is not JSON                                    *)
TextTokens == {"{", "}", ",", "K", "O", "S", "N", "I", "x"}

KeyName(tok) == IF tok = "K" THEN "corrected_address" ELSE "note"

TokenValue(tok) ==
    CASE tok = "S" -> PyStr(CorrectedAddress)
      [] tok = "N" -> PyNone
      [] tok = "I" -> PyInt

ParseFail == [ok |-> FALSE, next |-> 0, val |-> PyNone, dict |-> EmptyDict]

\* json.loads on a text that starts with "{": a recursive-descent parse of
\* object := "{" [key value ("," key value)*] "}"; a repeated key keeps its
\* last value
RECURSIVE ParseValue(_, _), ParseObject(_, _), ParseMembers(_, _, _)
ParseValue(toks, i) ==
    IF i > Len(toks) THEN ParseFail
    ELSE IF toks[i] \in {"S", "N", "I"}
    THEN [ok |-> TRUE, next |-> i + 1, val |-> TokenValue(toks[i]), dict |-> EmptyDict]
    ELSE IF toks[i] = "{"
    THEN LET r == ParseObject(toks, i) IN
         IF r.ok THEN [r EXCEPT !.val = PyDict(r.dict)] ELSE ParseFail
    ELSE ParseFail

ParseObject(toks, i) ==
    IF i + 1 <= Len(toks) /\ toks[i + 1] = "}"
    THEN [ok |-> TRUE, next |-> i + 2, val |-> PyNone, dict |-> EmptyDict]
    ELSE ParseMembers(toks, i + 1, EmptyDict)

ParseMembers(toks, i, d) ==
    IF i > Len(toks) \/ toks[i] \notin {"K", "O"} THEN ParseFail
    ELSE LET v == ParseValue(toks, i + 1) IN
         IF ~v.ok \/ v.next > Len(toks) THEN ParseFail
         ELSE LET d2 == [x \in DOMAIN d \cup {KeyName(toks[i])} |->
                            IF x = KeyName(toks[i]) THEN v.val ELSE d[x]]
              IN IF toks[v.next] = "," THEN ParseMembers(toks, v.next + 1, d2)
                 ELSE IF toks[v.next] = "}"
                 THEN [ok |-> TRUE, next |-> v.next + 1, val |-> PyNone, dict |-> d2]
                 ELSE ParseFail

json_loads(s) ==
    IF s # <<>> /\ s[1] = "{"
    THEN LET r == ParseObject(s, 1) IN
         IF r.ok /\ r.next = Len(s) + 1 THEN r ELSE ParseFail
    ELSE ParseFail

\* re.search(r"\{.*\}", text, re.S): from the first "{" to the last "}" after it
BraceMatch(text) ==
    LET opens == {i \in 1..Len(text) : text[i] = "{"}
        first == CHOOSE i \in opens : \A j \in opens : i <= j
        closes == {i \in 1..Len(text) : text[i] = "}" /\ i > first}
        last == CHOOSE i \in closes : \A j \in closes : j <= i
    IN IF opens = {} \/ closes = {}
       THEN [found |-> FALSE, group |-> <<>>]
       ELSE [found |-> TRUE, group |-> SubSeq(text, first, last)]

\* extract_json_safe(text, fallback) of the first variant
extract_json_safe(text, fallback) ==
    LET match == BraceMatch(text)
        r == json_loads(match.group)
    IN IF match.found /\ r.ok THEN r.dict
       ELSE IF DOMAIN fallback # {} THEN fallback ELSE EmptyDict

\* extract_json_safe(text) of the second variant
extract_json_safe2(text) ==
    LET match == BraceMatch(text)
        r == json_loads(match.group)
    IN IF match.found /\ r.ok THEN r.dict ELSE EmptyDict

\* d.get(k, default)
GetDefault(d, k, default) == IF k \in DOMAIN d THEN d[k] ELSE default

\* normalize_address returning data.get("corrected_address") without the default
normalize_address_NoDefault(variant, addr, text) ==
    LET data == IF variant = "Run"
                THEN extract_json_safe(text, [k \in {"corrected_address"} |-> PyStr(addr)])
                ELSE extract_json_safe2(text)
    IN GetDefault(data, "corrected_address", PyNone)

\* normalize_address(address), given the text the model call returned
normalize_address(variant, addr, text) ==
    LET data == IF variant = "Run"
                THEN extract_json_safe(text, [k \in {"corrected_address"} |-> PyStr(addr)])
                ELSE extract_json_safe2(text)
    IN GetDefault(data, "corrected_address", PyStr(addr))

\* the 5-digit tokens of a string, in order: re.findall(r"\b\d{5}\b", s)
ZipTokens == {"77002", "77099"}

IsZip(tok) == tok \in ZipTokens

FindZips(s) == SelectSeq(s, IsZip)

\* re.sub(r"\b\d{5}\b", zip, s) without count: every 5-digit token replaced
SubEveryZip(s, zip) == [i \in 1..Len(s) |-> IF IsZip(s[i]) THEN zip ELSE s[i]]

\* re.sub(r"\b\d{5}\b", zip, s, count=1)
SubFirstZip(s, zip) ==
    LET hits == {i \in 1..Len(s) : IsZip(s[i])}
        first == CHOOSE i \in hits : \A j \in hits : i <= j
    IN IF hits = {} THEN s ELSE [s EXCEPT ![first] = zip]

\* enforce_user_zip(original, corrected): the value returned, or raised = TRUE
\* when re.findall is handed a value that is not a string
enforce_user_zip(original, corrected) ==
    LET orig_zip == FindZips(original)
    IN IF ~PyTruthy(corrected)
       THEN [raised |-> FALSE, val |-> corrected]
       ELSE IF ~IsStr(corrected)
       THEN [raised |-> TRUE, val |-> corrected]
       ELSE LET corr_zip == FindZips(corrected.v) IN
            IF orig_zip # <<>> /\ corr_zip # <<>> /\ orig_zip[1] # corr_zip[1]
            THEN [raised |-> FALSE, val |-> PyStr(SubFirstZip(corrected.v, orig_zip[1]))]
            ELSE [raised |-> FALSE, val |-> corrected]

-----------------------------------------------------------------------------
(* Address normalization: the steps of both variants up to fetch_attom *)

\* addresses a user types: with a ZIP other than the corrected one, with the
\* same ZIP, and without a ZIP
Addresses ==
    { <<"1", " ", "main", " ", "street", ",", " ", "houston", ",", " ", "tx", " ", "77099">>,
      <<"1", " ", "main", " ", "street", ",", " ", "houston", ",", " ", "tx", " ", "77002">>,
      <<"main", " ", "street", " ", "houston">> }

Texts == UNION {[1..n -> TextTokens] : n \in 0..MaxText}

\* the parts of the state a specification does not use stay idle
NormIdle ==
    /\ npc = "idle"
    /\ nvariant = "Run"
    /\ address = <<>>
    /\ output_text = <<>>
    /\ normalized = PyNone

ParseIdle ==
    /\ ppc = "idle"
    /\ structured_md = <<>>
    /\ sections = EmptyDict
    /\ flat_kv = EmptyDict

RunIdle ==
    /\ rpc = "idle"
    /\ rvariant = "Run"
    /\ address_input = <<>>
    /\ rnormalized = PyNone
    /\ rattom = EmptyDict
    /\ structured = "None"
    /\ driver = "none"
    /\ trace = <<>>
    /\ ui = <<>>
    /\ failure = "none"

MergeIdle ==
    /\ mpc = "idle"
    /\ attom = EmptyDict
    /\ scraped = NoneDict
    /\ ai = NoneDict
    /\ harris = FALSE
    /\ identification = EmptyDict
    /\ location = EmptyDict
    /\ target_fields = <<>>
    /\ ai_text = <<>>
    /\ guesses = EmptyDict

ZipIdle ==
    /\ zpc = "idle"
    /\ zoriginal = <<>>
    /\ zcorrected = PyNone
    /\ zresult = PyNone
    /\ zagain = PyNone

ScrollIdle ==
    /\ spc = "idle"
    /\ height = 0
    /\ settled = FALSE
    /\ last_h = 0
    /\ new_h = 0
    /\ iterations = 0

InitNorm ==
    /\ npc = "start"
    /\ nvariant \in {"Run", "Start"}
    /\ address \in Addresses
    /\ output_text = <<>>
    /\ normalized = PyNone
    /\ MergeIdle
    /\ ParseIdle
    /\ RunIdle
    /\ ZipIdle
    /\ ScrollIdle

\* normalized = normalize_address(address_input)
Normalize ==
    /\ npc = "start"
    /\ \E text \in Texts :
          /\ output_text' = text
          /\ normalized' = normalize_address(nvariant, address, text)
    /\ npc' = "normalized"
    /\ UNCHANGED <<nvariant, address, mergeVars, parseVars, runVars, zipVars, scrollVars>>

\* normalized = enforce_user_zip(address_input, normalized), first variant only
EnforceZip ==
    /\ npc = "normalized" /\ nvariant = "Run"
    /\ LET r == enforce_user_zip(address, normalized) IN
          /\ normalized' = r.val
          /\ npc' = IF r.raised THEN "raised" ELSE "passed"
    /\ UNCHANGED <<nvariant, address, output_text, mergeVars, parseVars, runVars, zipVars, scrollVars>>

\* the second variant hands normalized to fetch_attom as it is
PassOn ==
    /\ npc = "normalized" /\ nvariant = "Start"
    /\ npc' = "passed"
    /\ UNCHANGED <<nvariant, address, output_text, normalized, mergeVars, parseVars, runVars, zipVars, scrollVars>>

NextNorm == Normalize \/ EnforceZip \/ PassOn

SpecNorm == InitNorm /\ [][NextNorm]_vars

-----------------------------------------------------------------------------
(* Markdown tables parsing helpers *)

(* The structured Markdown is a sequence of sections, one per "## " chunk: *)
(*   name   the text of the heading line                                    *)
(*   cols   the number of cells of every line of the table under it         *)
(*   style  "markdown": every line starts and ends with "|" and a           *)
(*          separator line of dashes follows the header line;               *)
(*          "plain": cells joined by "|", no outer pipes, no separator      *)
(*   rows   the lines under the header (and separator), each a sequence of  *)
(*          cols cells                                                      *)
(* A cell is the text between two pipes: "" when there is none, " " when   *)
(* it is blank, or a word, padded with blanks or not.                       *)

NaN == "<NaN>"

\* str.strip() on the cells that occur
Strip(c) ==
    CASE c = " " -> ""
      [] c = " A " -> "A"
      [] c = " 1 " -> "1"
      [] c = " nan " -> "nan"
      [] c = " Field " -> "Field"
      [] c = " Type " -> "Type"
      [] c = " Value " -> "Value"
      [] c = " --- " -> "---"
      [] OTHER -> c

\* str(x) of a cell of the frame
Str(x) == IF x = NaN THEN "nan" ELSE x

\* re.match(r"^\s*-{3,}\s*$", str(v))
IsDashes(x) == Strip(Str(x)) = "---"

HeaderCells(cols) ==
    CASE cols = 1 -> <<" Field ">>
      [] cols = 2 -> <<" Field ", " Value ">>
      [] OTHER -> <<" Field ", " Type ", " Value ">>

\* the cells of a line as read_csv(sep="|") splits it
LineCells(style, cells) == IF style = "markdown" THEN <<"">> \o cells \o <<"">> ELSE cells

\* the elements of s at the indices in keep, in order
KeepSeq(s, keep) ==
    LET F[i \in 0..Len(s)] ==
            IF i = 0 THEN <<>>
            ELSE IF i \in keep THEN Append(F[i - 1], s[i]) ELSE F[i - 1]
    IN F[Len(s)]

NoFrame == [ok |-> FALSE, columns |-> <<>>, rows |-> <<>>]

\* markdown_table_to_df(md_table): None, or the frame's column names and rows
markdown_table_to_df(sec) ==
    LET separator == [j \in 1..sec.cols |-> " --- "]
        body == IF sec.style = "markdown" THEN <<separator>> \o sec.rows ELSE sec.rows
        \* pd.read_csv(..., sep="|", header=0): an empty cell reads as NaN
        header == LineCells(sec.style, HeaderCells(sec.cols))
        data == [i \in 1..Len(body) |-> LineCells(sec.style, body[i])]
        \* df.dropna(axis=1, how="all")
        keep == {j \in 1..Len(header) : \E i \in 1..Len(data) : data[i][j] # ""}
        \* strip whitespace from headers and cells
        columns == [j \in 1..Len(KeepSeq(header, keep)) |-> Strip(KeepSeq(header, keep)[j])]
        cells == [i \in 1..Len(data) |->
                    [j \in 1..Len(columns) |->
                        LET x == KeepSeq(data[i], keep)[j] IN
                        IF x = "" THEN NaN ELSE Strip(x)]]
        \* remove separator row if present
        rows == IF Len(cells) >= 1 /\ \A j \in 1..Len(columns) : IsDashes(cells[1][j])
                THEN Tail(cells) ELSE cells
    IN IF sec.style # "markdown" /\ sec.cols < 2 THEN NoFrame      \* "|" not in md_table
       ELSE IF 1 + Len(body) < 2 THEN NoFrame                      \* len(lines) < 2
       ELSE [ok |-> TRUE, columns |-> columns, rows |-> rows]

\* the rows of df[["Field", "Value"]]: first and last column of the frame
FieldValueRows(df) ==
    [i \in 1..Len(df.rows) |->
        [Field |-> df.rows[i][1], Value |-> df.rows[i][Len(df.columns)]]]

\* "for _, row in df.iterrows(): ... if k: flat_kv[k] = v" from row i on
RECURSIVE BuildFlat(_, _, _)
BuildFlat(rows, i, kv) ==
    IF i > Len(rows) THEN kv
    ELSE LET k == Strip(Str(rows[i].Field))
             v == IF rows[i].Value # NaN THEN Strip(Str(rows[i].Value)) ELSE None
         IN BuildFlat(rows, i + 1, IF k # "" THEN Put(kv, k, v) ELSE kv)

\* parse_structured_sections(structured_md) from chunk i on
RECURSIVE ParseChunks(_, _, _)
ParseChunks(md, i, acc) ==
    IF i > Len(md) THEN acc
    ELSE LET df == markdown_table_to_df(md[i]) IN
         IF ~df.ok \/ Len(df.columns) < 2 THEN ParseChunks(md, i + 1, acc)
         ELSE ParseChunks(md, i + 1,
                 [sections |-> Put(acc.sections, md[i].name, FieldValueRows(df)),
                  flat_kv |-> BuildFlat(FieldValueRows(df), 1, acc.flat_kv)])

parse_structured_sections(md) ==
    ParseChunks(md, 1, [sections |-> EmptyDict, flat_kv |-> EmptyDict])

-----------------------------------------------------------------------------
(* The structured Markdown the model returns, and its parse *)

FieldCells == {"", " ", " A ", " nan "}

ValueCells == {"", " 1 ", "2"}

RowsOf(cols) ==
    CASE cols = 1 -> {<<f>> : f \in FieldCells}
      [] cols = 2 -> {<<f, v>> : f \in FieldCells, v \in ValueCells}
      [] OTHER -> {<<f, "m", v>> : f \in FieldCells, v \in ValueCells}

RECURSIVE CountRows(_)
CountRows(md) == IF md = <<>> THEN 0 ELSE Len(Head(md).rows) + CountRows(Tail(md))

InitParse ==
    /\ ppc = "text"
    /\ structured_md = <<>>
    /\ sections = EmptyDict
    /\ flat_kv = EmptyDict
    /\ MergeIdle
    /\ NormIdle
    /\ RunIdle
    /\ ZipIdle
    /\ ScrollIdle

\* the model writes one more "## " section
WriteSection ==
    /\ ppc = "text" /\ Len(structured_md) < MaxSections
    /\ \E cols \in 1..3, style \in {"markdown", "plain"} :
          structured_md' = Append(structured_md,
              [name |-> "Section " \o ToString(Len(structured_md) + 1),
               cols |-> cols, style |-> style, rows |-> <<>>])
    /\ UNCHANGED <<ppc, sections, flat_kv, mergeVars, normVars, runVars, zipVars, scrollVars>>

\* the model writes one more table row under the last section
WriteRow ==
    /\ ppc = "text" /\ structured_md # <<>> /\ CountRows(structured_md) < MaxRows
    /\ LET n == Len(structured_md) IN
       \E row \in RowsOf(structured_md[n].cols) :
          structured_md' = [structured_md EXCEPT ![n].rows = Append(@, row)]
    /\ UNCHANGED <<ppc, sections, flat_kv, mergeVars, normVars, runVars, zipVars, scrollVars>>

\* _, flattened_scraped = parse_structured_sections(structured_md)
Parse ==
    /\ ppc = "text"
    /\ LET r == parse_structured_sections(structured_md) IN
          /\ sections' = r.sections
          /\ flat_kv' = r.flat_kv
    /\ ppc' = "done"
    /\ UNCHANGED <<structured_md, mergeVars, normVars, runVars, zipVars, scrollVars>>

NextParse == WriteSection \/ WriteRow \/ Parse

SpecParse == InitParse /\ [][NextParse]_vars

-----------------------------------------------------------------------------
(* Merge with priority *)

\* first truthy scraped value under the candidate keys, in candidate order
RECURSIVE pick(_, _)
pick(sc, key_candidates) ==
    IF key_candidates = <<>> THEN None
    ELSE LET k == Head(key_candidates) IN
         IF k \in DOMAIN OrEmpty(sc) /\ Truthy(Get(sc.map, k))
         THEN Get(sc.map, k)
         ELSE pick(sc, Tail(key_candidates))

RECURSIVE sget(_, _)
sget(sc, names) ==
    IF names = <<>> THEN None
    ELSE LET v == Get(OrEmpty(sc), Head(names)) IN
         IF Truthy(v) THEN v ELSE sget(sc, Tail(names))

\* "if ai: for k in out: if not out[k]: out[k] = ai.get(k)", overriding
\* the values already chosen
AiFillOverriding(out, a) ==
    IF DictTruthy(a)
    THEN [k \in DOMAIN out |-> IF Truthy(Get(a.map, k)) THEN Get(a.map, k) ELSE out[k]]
    ELSE out

\* a fill that walks the keys of ai and not those of out
AiFillEveryGuess(out, a) ==
    IF DictTruthy(a)
    THEN [k \in DOMAIN out \cup DOMAIN a.map |->
             IF k \in DOMAIN out /\ Truthy(out[k]) THEN out[k] ELSE Get(a.map, k)]
    ELSE out

\* if ai: for k in out: if not out[k]: out[k] = ai.get(k)
AiFill(out, a) ==
    IF DictTruthy(a)
    THEN [k \in DOMAIN out |-> IF ~Truthy(out[k]) THEN Get(a.map, k) ELSE out[k]]
    ELSE out

\* out[k] = v: the key is added when the dict does not hold it
SetItem(out, k, v) == IF k \in DOMAIN out THEN [out EXCEPT ![k] = v] ELSE Put(out, k, v)

build_identification(at, sc, a, h) ==
    LET out0 == BlankIdentification
        \* Property ID (APN)
        out1 == SetItem(out0, "Property ID",
                    PyOr(PyOr(Get(OrEmpty(sc), "Account Number"), Get(at, "apn")),
                         Get(OrEmpty(a), "Property ID")))
        \* Owner Name
        out2 == IF h THEN SetItem(out1, "Owner Name", pick(sc, <<"Owner", "Owner Name">>))
                ELSE out1
        out3 == IF ~Truthy(out2["Owner Name"])
                THEN SetItem(out2, "Owner Name",
                         PyOr(Get(at, "owner_name"), Get(OrEmpty(a), "Owner Name")))
                ELSE out2
        \* Property Type / Subtype
        out4 == IF h THEN SetItem(SetItem(out3, "Property Type", pick(sc, <<"Property Type">>)),
                                  "Property Subtype", pick(sc, <<"Property Subtype">>))
                ELSE out3
        out5 == SetItem(out4, "Property Type",
                    PyOr(PyOr(out4["Property Type"], Get(at, "property_type")),
                         Get(OrEmpty(a), "Property Type")))
        out6 == SetItem(out5, "Property Subtype",
                    PyOr(PyOr(out5["Property Subtype"], Get(at, "property_sub_type")),
                         Get(OrEmpty(a), "Property Subtype")))
        \* Ownership Type, Occupancy Status, Permit
        out7 == IF h
                THEN SetItem(SetItem(SetItem(out6,
                        "Ownership Type", pick(sc, <<"Ownership Type", "Ownership">>)),
                        "Occupancy Status", pick(sc, <<"Occupancy Status", "Occupancy">>)),
                        "Building Code / Permit ID",
                        pick(sc, <<"Permit", "Permit ID", "Building Permit",
                                   "Building Code / Permit ID">>))
                ELSE out6
    \* Fill nulls with AI
    IN AiFill(out7, a)

build_location(at, sc, a, h) ==
    LET out0 == BlankLocation
        \* ATTOM base
        b1 == SetItem(out0, "Address Line 1", Get(at, "street_name"))
        b2 == SetItem(b1, "Street Name", Get(at, "street_name"))
        b3 == SetItem(b2, "City", Get(at, "city"))
        b4 == SetItem(b3, "County", Get(at, "county"))
        b5 == SetItem(b4, "State", Get(at, "state"))
        b6 == SetItem(b5, "Postal Code", Get(at, "zipcode"))
        b7 == SetItem(b6, "Latitude", Get(at, "latitude"))
        out1 == SetItem(b7, "Longitude", Get(at, "longitude"))
        \* Harris overrides from scraped
        s1 == SetItem(out1, "Legal Description",
                  sget(sc, <<"Legal Description", "Legal", "Legal Desc">>))
        s2 == SetItem(s1, "Neighborhood Name", sget(sc, <<"Neighborhood Name", "Neighborhood">>))
        s3 == SetItem(s2, "State Class Code",
                  sget(sc, <<"State Class Code", "State Class", "Class Code">>))
        s4 == SetItem(s3, "Tax District",
                  sget(sc, <<"Tax District", "Taxing Jurisdictions", "Jurisdictions">>))
        s5 == SetItem(s4, "Tax Code", sget(sc, <<"Tax Code", "Tax Code Area">>))
        s6 == SetItem(s5, "Address Line 1",
                  PyOr(sget(sc, <<"Site Address", "Situs Address">>), s5["Address Line 1"]))
        s7 == SetItem(s6, "City", PyOr(sget(sc, <<"City">>), s6["City"]))
        s8 == SetItem(s7, "Postal Code",
                  PyOr(sget(sc, <<"Zip", "ZIP", "Zip Code">>), s7["Postal Code"]))
        out2 == IF h THEN s8 ELSE out1
    \* Fill remaining using AI (only where null)
    IN AiFill(out2, a)

\* ai_fill_missing(context, target_fields), given the text the model call
\* returned: guesses = {k: data.get(k) for k in target_fields}
ai_fill_missing(text, fields) ==
    LET data == extract_json_safe(text, EmptyDict)
    IN [k \in Range(fields) |-> GetDefault(data, k, PyNone)]

-----------------------------------------------------------------------------
(* The arguments the two builders are called with *)

\* keys build_identification and build_location look up in the scraped dict,
\* and one key ("Exemptions") that neither of them reads
ScrapedKeys ==
    { "Account Number", "Owner", "Owner Name", "Property Type", "Property Subtype",
      "Ownership Type", "Ownership", "Occupancy Status", "Occupancy",
      "Permit", "Permit ID", "Building Permit", "Building Code / Permit ID",
      "Legal Description", "Legal", "Legal Desc", "Neighborhood Name", "Neighborhood",
      "State Class Code", "State Class", "Class Code",
      "Tax District", "Taxing Jurisdictions", "Jurisdictions", "Tax Code", "Tax Code Area",
      "Site Address", "Situs Address", "City", "Zip", "ZIP", "Zip Code",
      "Exemptions" }

\* keys of the AI guesses: the requested fields, and one that was not requested
AiKeys == Range(ALL_FIELDS) \cup {"Zoning"}

\* the values an entry may hold: the empty string, or a non-empty string that
\* names its source and key (a guess the model does not make is absent or null,
\* which ai.get reads alike)
AttomValues(k) == {"", "attom:" \o k}
ScrapedValues(k) == {"", "scraped:" \o k}
AiValues(k) == {"ai:" \o k}

Entries == Cardinality(DOMAIN attom) + Cardinality(DOMAIN scraped.map)
             + Cardinality(DOMAIN ai.map)

InitMerge ==
    /\ mpc = "args"
    /\ attom = EmptyDict
    /\ scraped \in {NoneDict, [some |-> TRUE, map |-> EmptyDict]}
    /\ ai \in {NoneDict, [some |-> TRUE, map |-> EmptyDict]}
    /\ harris = FALSE
    /\ identification = EmptyDict
    /\ location = EmptyDict
    /\ target_fields = <<>>
    /\ ai_text = <<>>
    /\ guesses = EmptyDict
    /\ NormIdle
    /\ ParseIdle
    /\ RunIdle
    /\ ZipIdle
    /\ ScrollIdle

PutAttom ==
    /\ mpc = "args" /\ Entries < MaxEntries
    /\ \E k \in AttomKeys \ DOMAIN attom : \E v \in AttomValues(k) :
          attom' = Put(attom, k, v)
    /\ UNCHANGED <<mpc, scraped, ai, harris, identification, location, askVars,
               normVars, parseVars, runVars, zipVars, scrollVars>>

PutScraped ==
    /\ mpc = "args" /\ Entries < MaxEntries /\ scraped.some
    /\ \E k \in ScrapedKeys \ DOMAIN scraped.map : \E v \in ScrapedValues(k) :
          scraped' = [scraped EXCEPT !.map = Put(scraped.map, k, v)]
    /\ UNCHANGED <<mpc, attom, ai, harris, identification, location, askVars,
               normVars, parseVars, runVars, zipVars, scrollVars>>

PutAi ==
    /\ mpc = "args" /\ Entries < MaxEntries /\ ai.some
    /\ \E k \in AiKeys \ DOMAIN ai.map : \E v \in AiValues(k) :
          ai' = [ai EXCEPT !.map = Put(ai.map, k, v)]
    /\ UNCHANGED <<mpc, attom, scraped, harris, identification, location, askVars,
               normVars, parseVars, runVars, zipVars, scrollVars>>

\* identification = build_identification(attom, scraped, ai, harris=harris)
\* location = build_location(attom, scraped, ai, harris=harris)
Build ==
    /\ mpc = "args"
    /\ \E h \in BOOLEAN :
          /\ harris' = h
          /\ identification' = build_identification(attom, scraped, ai, h)
          /\ location' = build_location(attom, scraped, ai, h)
    /\ mpc' = "done"
    /\ UNCHANGED <<attom, scraped, ai, askVars,
               normVars, parseVars, runVars, zipVars, scrollVars>>

\* the lists of fields asked for: ALL_FIELDS as the script does, and a list
\* that names a key the model writes, a field twice and a field it omits
TargetLists == {ALL_FIELDS, <<"note", "Property ID", "note">>}

\* what the model may answer to the fill prompt: JSON punctuation, the key
\* "note", a string, null, and text that is not JSON
AiTexts == UNION {[1..n -> {"{", "}", ",", "O", "S", "N", "x"}] : n \in 0..MaxText}

\* ai_guesses = ai_fill_missing(context_for_ai, ALL_FIELDS)
AskAi ==
    /\ mpc = "args" /\ Entries = 0 /\ ~scraped.some /\ ~ai.some
    /\ \E fields \in TargetLists, text \in AiTexts :
          /\ target_fields' = fields
          /\ ai_text' = text
          /\ guesses' = ai_fill_missing(text, fields)
    /\ mpc' = "asked"
    /\ UNCHANGED <<attom, scraped, ai, harris, identification, location,
                   normVars, parseVars, runVars, zipVars, scrollVars>>

NextMerge == PutAttom \/ PutScraped \/ PutAi \/ Build \/ AskAi

SpecMerge == InitMerge /\ [][NextMerge]_vars

-----------------------------------------------------------------------------
(* enforce_user_zip on its own, applied once and then again to its result *)

MaxZipLen == 3

\* the tokens of the addresses: two 5-digit numbers, a word, and a number of
\* six digits, in which \b\d{5}\b finds nothing
ZipWords == ZipTokens \cup {"tx", "770021"}

ZipStrings == UNION {[1..n -> ZipWords] : n \in 0..MaxZipLen}

InitZip ==
    /\ zpc = "args"
    /\ zoriginal \in ZipStrings
    /\ zcorrected \in {PyStr(c) : c \in ZipStrings} \cup {PyNone}
    /\ zresult = PyNone
    /\ zagain = PyNone
    /\ MergeIdle
    /\ NormIdle
    /\ ParseIdle
    /\ RunIdle
    /\ ScrollIdle

\* normalized = enforce_user_zip(address_input, normalized)
EnforceOnce ==
    /\ zpc = "args"
    /\ LET r == enforce_user_zip(zoriginal, zcorrected) IN
          /\ zresult' = r.val
          /\ zpc' = IF r.raised THEN "raised" ELSE "once"
    /\ UNCHANGED <<zoriginal, zcorrected, zagain, mergeVars, normVars, parseVars, runVars,
                   scrollVars>>

\* enforce_user_zip(address_input, normalized) on the value it returned
EnforceAgain ==
    /\ zpc = "once"
    /\ LET r == enforce_user_zip(zoriginal, zresult) IN
          /\ zagain' = r.val
          /\ zpc' = IF r.raised THEN "raised" ELSE "twice"
    /\ UNCHANGED <<zoriginal, zcorrected, zresult, mergeVars, normVars, parseVars, runVars,
                   scrollVars>>

NextZip == EnforceOnce \/ EnforceAgain

SpecZip == InitZip /\ [][NextZip]_vars

-----------------------------------------------------------------------------
(* The scroll-to-load loop of the scrape (both variants) *)

MaxHeight == 5

MaxIterations == 5

Heights == 0..MaxHeight

\* a break test that also leaves the loop when the page has shrunk
ExitTestAtMost(nh, last) == nh <= last

\* if new_h == last_h: break
ExitTest(nh, last) == nh = last

\* last_h = 0 before the loop; the page has some height and may have settled
InitScroll ==
    /\ spc = "loop"
    /\ height \in Heights
    /\ settled \in BOOLEAN
    /\ last_h = 0
    /\ new_h = 0
    /\ iterations = 0
    /\ MergeIdle
    /\ NormIdle
    /\ ParseIdle
    /\ RunIdle
    /\ ZipIdle

\* one iteration of "while True": scrollBy, sleep, read scrollHeight, compare.
\* A page that has not settled may show any height after the scroll and may
\* settle at it; a settled page keeps its height.
Iterate ==
    /\ spc = "loop"
    /\ \E h \in Heights, st \in BOOLEAN :
          /\ settled => (h = height /\ st)
          /\ height' = h
          /\ settled' = st
          /\ new_h' = h
          /\ IF ExitTest(h, last_h)
             THEN spc' = "done" /\ last_h' = last_h
             ELSE spc' = "loop" /\ last_h' = h
    /\ iterations' = IF iterations < MaxIterations THEN iterations + 1 ELSE iterations
    /\ UNCHANGED <<mergeVars, normVars, parseVars, runVars, zipVars>>

NextScroll == Iterate

SpecScroll == InitScroll /\ [][NextScroll]_vars

\* the loop body is executed again as long as the loop has not been left
SpecScrollFair == SpecScroll /\ WF_vars(Iterate)

-----------------------------------------------------------------------------
(* ATTOM fetch *)

\* the address splits into street, city, state and ZIP:
\*   street, rest = address.split(",", 1); city, st_zip = rest.rsplit(",", 1)
\*   state, zipcode = st_zip.strip().split()
\* (a value that is not a string has no split: AttributeError, caught alike)
AddressSplits(a) ==
    /\ IsStr(a)
    /\ LET commas == {i \in 1..Len(a.v) : a.v[i] = ","}
           last == CHOOSE i \in commas : \A j \in commas : j <= i
       IN /\ Cardinality(commas) >= 2
          /\ Cardinality({i \in (last + 1)..Len(a.v) : a.v[i] # " "}) = 2

\* what requests.get meets: a transport error, or a response with a status
\* code and a body that is JSON with properties, JSON without, or not JSON;
\* apn and county are those of the first property
Apns == {None, "0421880000012"}

Counties == {None, "Harris", " HARRIS ", "Dallas", "Harrison"}

Exchanges ==
    {[transport |-> "error", status |-> 0, body |-> "none", apn |-> None, county |-> None]}
    \cup {[transport |-> "ok", status |-> st, body |-> b, apn |-> None, county |-> None] :
             st \in {200, 404}, b \in {"no_property", "not_json"}}
    \cup {[transport |-> "ok", status |-> 200, body |-> "property", apn |-> a, county |-> c] :
             a \in Apns, c \in Counties}

AttomOut(net) == [k \in {"apn", "county"} |-> IF k = "apn" THEN net.apn ELSE net.county]

\* fetch_attom(address) of either variant: the dict returned, or raised = TRUE
\* when an exception leaves the function; failure names what went wrong
fetch_attom(variant, a, net) ==
    IF ~AddressSplits(a)
    THEN [raised |-> FALSE, out |-> EmptyDict, failure |-> "address_parse"]
    ELSE IF net.transport = "error"
    THEN [raised |-> TRUE, out |-> EmptyDict, failure |-> "api_transport"]
    ELSE IF variant = "Run" /\ net.status # 200
    THEN [raised |-> FALSE, out |-> EmptyDict, failure |-> "api_status"]
    ELSE IF net.body = "not_json"
    THEN [raised |-> TRUE, out |-> EmptyDict, failure |-> "api_body"]
    ELSE IF net.body = "no_property"
    THEN [raised |-> FALSE, out |-> EmptyDict,
          failure |-> IF net.status # 200 THEN "api_status" ELSE "none"]
    ELSE [raised |-> FALSE, out |-> AttomOut(net),
          failure |-> IF net.status # 200 THEN "api_status" ELSE "none"]

-----------------------------------------------------------------------------
(* One run of the script *)

\* not address_input.strip() / not address
InputRejected(variant, input) ==
    IF variant = "Run" THEN \A i \in 1..Len(input) : input[i] = " "
    ELSE input = <<>>

\* (attom.get("county") or "").strip().lower() on the county names that occur
StripLower(c) ==
    CASE c = None -> ""
      [] c = "Harris" -> "harris"
      [] c = " HARRIS " -> "harris"
      [] c = "Dallas" -> "dallas"
      [] c = "Harrison" -> "harrison"
      [] OTHER -> c

\* "if not attom" / "if not apn"
AttomUnusable(variant, at) ==
    IF variant = "Run" THEN DOMAIN at = {} ELSE ~Truthy(Get(at, "apn"))

\* whether the run goes on to the scrape once ATTOM gave usable data
ShouldScrape(variant, at) ==
    IF variant = "Run"
    THEN StripLower(Get(at, "county")) = "harris" /\ Truthy(Get(at, "apn"))
    ELSE TRUE

\* where the run goes when ATTOM gave nothing usable, if the lookup were retried
OnUnusableRetry == "attom"

\* where the run goes when ATTOM gave nothing usable: st.stop()
OnUnusable == "stopped"

\* the browser-automation steps of the scrape that can raise
ScrapeSteps ==
    {"page_load", "search_box", "search_button", "popup_container", "result_link",
     "window_switch", "scroll", "inner_text"}

AddressInputs ==
    { <<>>, <<" ">>,
      <<"1", " ", "main", " ", "street", ",", " ", "houston", ",", " ", "tx", " ", "77099">>,
      <<"main", " ", "street", " ", "houston">> }

\* what the model may answer to the normalization prompt
RunTexts ==
    { <<"{", "K", "S", "}">>, <<"x">>, <<"{", "K", "N", "}">>, <<"{", "K", "I", "}">> }

InitRun ==
    /\ rpc = "click"
    /\ rvariant \in {"Run", "Start"}
    /\ address_input \in AddressInputs
    /\ rnormalized = PyNone
    /\ rattom = EmptyDict
    /\ structured = "None"
    /\ driver = "none"
    /\ trace = <<>>
    /\ ui = <<>>
    /\ failure = "none"
    /\ MergeIdle
    /\ NormIdle
    /\ ParseIdle
    /\ ZipIdle
    /\ ScrollIdle

\* if st.button(...): the check of the address box
Click ==
    /\ rpc = "click"
    /\ IF InputRejected(rvariant, address_input)
       THEN /\ rpc' = "stopped"
            /\ ui' = IF rvariant = "Run"
                     THEN Append(ui, "error: Please enter an address.") ELSE ui
       ELSE /\ rpc' = "normalize"
            /\ UNCHANGED ui
    /\ UNCHANGED <<rvariant, address_input, rnormalized, rattom, structured, driver,
                   trace, failure, mergeVars, normVars, parseVars, zipVars, scrollVars>>

\* normalized = normalize_address(...), and enforce_user_zip in the first variant
NormalizeStage ==
    /\ rpc = "normalize"
    /\ trace' = Append(trace, "normalize")
    /\ \E replied \in BOOLEAN, text \in RunTexts :
          IF ~replied
          THEN rpc' = "crashed" /\ UNCHANGED <<rnormalized, ui>>
          ELSE LET n == normalize_address(rvariant, address_input, text)
                   z == enforce_user_zip(address_input, n)
               IN IF rvariant = "Start"
                  THEN rnormalized' = n /\ rpc' = "attom" /\ UNCHANGED ui
                  ELSE /\ rnormalized' = z.val
                       /\ rpc' = IF z.raised THEN "crashed" ELSE "attom"
                       /\ ui' = IF ~z.raised /\ z.val # n
                                THEN Append(ui, "warning: ZIP overridden to user input")
                                ELSE ui
    /\ UNCHANGED <<rvariant, address_input, rattom, structured, driver, failure,
                   mergeVars, normVars, parseVars, zipVars, scrollVars>>

\* attom = fetch_attom(normalized)
AttomStage ==
    /\ rpc = "attom"
    /\ trace' = Append(trace, "attom")
    /\ \E net \in Exchanges :
          LET r == fetch_attom(rvariant, rnormalized, net) IN
          /\ rattom' = r.out
          /\ failure' = r.failure
          /\ rpc' = IF r.raised THEN "crashed" ELSE "check"
    /\ UNCHANGED <<rvariant, address_input, rnormalized, structured, driver, ui,
                   mergeVars, normVars, parseVars, zipVars, scrollVars>>

\* "if not attom: st.error(...); st.stop()", "if not apn: st.error(...); st.stop()",
\* and the choice of scraping
CheckAttom ==
    /\ rpc = "check"
    /\ IF AttomUnusable(rvariant, rattom)
       THEN /\ rpc' = OnUnusable
            /\ ui' = Append(ui, IF rvariant = "Run"
                                THEN "error: ATTOM did not return data for this address."
                                ELSE "error: APN not found")
       ELSE /\ rpc' = IF ShouldScrape(rvariant, rattom) THEN "scrape" ELSE "ai_fill"
            /\ UNCHANGED ui
    /\ UNCHANGED <<rvariant, address_input, rnormalized, rattom, structured, driver,
                   trace, failure, mergeVars, normVars, parseVars, zipVars, scrollVars>>

\* the browser part of scrape_hcad_and_structure / scrape_hcad: every step
\* succeeds, or one step raises; the first variant quits the driver in a
\* finally block, the second only after the last step
ScrapeStage ==
    /\ rpc = "scrape"
    /\ trace' = Append(trace, "scrape")
    /\ \/ /\ driver' = "quit"
          /\ rpc' = "structure"
          /\ UNCHANGED failure
       \/ \E step \in ScrapeSteps :
             /\ driver' = IF rvariant = "Run" THEN "quit" ELSE "open"
             /\ rpc' = "crashed"
             /\ failure' = "scrape"
    /\ UNCHANGED <<rvariant, address_input, rnormalized, rattom, structured, ui,
                   mergeVars, normVars, parseVars, zipVars, scrollVars>>

\* the model call that structures the raw text into Markdown
StructureStage ==
    /\ rpc = "structure"
    /\ trace' = Append(trace, "structure")
    /\ \/ /\ structured' \in {"empty", "text"}
          /\ rpc' = IF rvariant = "Run" THEN "ai_fill" ELSE "merge"
       \/ /\ rpc' = "crashed"
          /\ UNCHANGED structured
    /\ UNCHANGED <<rvariant, address_input, rnormalized, rattom, driver, ui, failure,
                   mergeVars, normVars, parseVars, zipVars, scrollVars>>

\* ai_guesses = ai_fill_missing(context_for_ai, ALL_FIELDS), first variant only
AiFillStage ==
    /\ rpc = "ai_fill"
    /\ trace' = Append(trace, "ai_fill")
    /\ \E replied \in BOOLEAN : rpc' = IF replied THEN "merge" ELSE "crashed"
    /\ UNCHANGED <<rvariant, address_input, rnormalized, rattom, structured, driver, ui,
                   failure, mergeVars, normVars, parseVars, zipVars, scrollVars>>

\* build_identification / build_location, or "final = attom.copy()"
MergeStage ==
    /\ rpc = "merge"
    /\ trace' = Append(trace, "merge")
    /\ rpc' = "render"
    /\ UNCHANGED <<rvariant, address_input, rnormalized, rattom, structured, driver, ui,
                   failure, mergeVars, normVars, parseVars, zipVars, scrollVars>>

\* the tabs, then the county sections or the note that the county is not Harris
RenderStage ==
    /\ rpc = "render"
    /\ trace' = Append(trace, "render")
    /\ ui' = ui \o <<"tab: Identification", "tab: Location">> \o
             (IF rvariant = "Start" \/ structured = "text"
              THEN <<"Additional Data From County Site">>
              ELSE <<"info: County is not Harris">>)
    /\ rpc' = "finished"
    /\ UNCHANGED <<rvariant, address_input, rnormalized, rattom, structured, driver,
                   failure, mergeVars, normVars, parseVars, zipVars, scrollVars>>

NextRun ==
    \/ Click \/ NormalizeStage \/ AttomStage \/ CheckAttom \/ ScrapeStage
    \/ StructureStage \/ AiFillStage \/ MergeStage \/ RenderStage

SpecRun == InitRun /\ [][NextRun]_vars

-----------------------------------------------------------------------------
(* Claims on the merge *)

IdentificationKeys == Range(IDENTIFICATION_FIELDS)

LocationKeys == Range(LOCATION_FIELDS)

AllKeys == Range(ALL_FIELDS)

Called == mpc = "done"

\* the merged value of field f, from whichever builder returns it
Merged(f) == IF f \in DOMAIN identification THEN identification[f] ELSE location[f]

\* the sources of the fields that are read from more than one source
MultiSourceFields ==
    { "Property ID", "Owner Name", "Property Type", "Property Subtype",
      "Address Line 1", "City", "Postal Code" }

CandidateKeys(f) ==
    CASE f = "Property ID" -> {"Account Number"}
      [] f = "Owner Name" -> {"Owner", "Owner Name"}
      [] f = "Property Type" -> {"Property Type"}
      [] f = "Property Subtype" -> {"Property Subtype"}
      [] f = "Address Line 1" -> {"Site Address", "Situs Address"}
      [] f = "City" -> {"City"}
      [] f = "Postal Code" -> {"Zip", "ZIP", "Zip Code"}

AttomKeyOf(f) ==
    CASE f = "Property ID" -> "apn"
      [] f = "Owner Name" -> "owner_name"
      [] f = "Property Type" -> "property_type"
      [] f = "Property Subtype" -> "property_sub_type"
      [] f = "Address Line 1" -> "street_name"
      [] f = "City" -> "city"
      [] f = "Postal Code" -> "zipcode"

ScrapedNonEmpty(f) ==
    {scraped.map[k] : k \in {c \in CandidateKeys(f) \cap DOMAIN scraped.map :
                                 Truthy(scraped.map[c])}}

AiGuess(f) == Get(OrEmpty(ai), f)

\* C1 as stated: with harris = true every multi-source field is the scraped
\* value if one is non-empty, else the ATTOM value if non-empty, else the AI
\* guess for the field (None when there is no guess).
C1_FirstNonEmptyWins_AsStated ==
    (Called /\ harris) =>
        \A f \in MultiSourceFields :
            IF ScrapedNonEmpty(f) # {} THEN Merged(f) \in ScrapedNonEmpty(f)
            ELSE IF Truthy(Get(attom, AttomKeyOf(f))) THEN Merged(f) = Get(attom, AttomKeyOf(f))
            ELSE Merged(f) = AiGuess(f)

\* C1 amended: scraped > ATTOM > AI as stated, but when neither scraped nor
\* ATTOM holds a non-empty value the output is the AI guess only if the ai
\* mapping is non-empty; with ai None or {} the output is an empty value
\* (None, or the empty ATTOM value itself).
C1_FirstNonEmptyWins ==
    (Called /\ harris) =>
        \A f \in MultiSourceFields :
            IF ScrapedNonEmpty(f) # {} THEN Merged(f) \in ScrapedNonEmpty(f)
            ELSE IF Truthy(Get(attom, AttomKeyOf(f))) THEN Merged(f) = Get(attom, AttomKeyOf(f))
            ELSE IF DictTruthy(ai) THEN Merged(f) = Get(ai.map, f)
            ELSE ~Truthy(Merged(f))

\* a Harris call in which a scraped value and an ATTOM value compete for
\* Owner Name and the scraped one is returned
C1_Witness ==
    /\ Called /\ harris
    /\ Truthy(Get(scraped.map, "Owner"))
    /\ Truthy(Get(attom, "owner_name"))
    /\ identification["Owner Name"] = scraped.map["Owner"]

\* C2: with harris = false the scraped argument takes no part: the returned
\* mappings equal those of the same call with scraped = None.
C2_ScrapedIgnoredWhenNotHarris ==
    (Called /\ ~harris) =>
        /\ identification = build_identification(attom, NoneDict, ai, FALSE)
        /\ location = build_location(attom, NoneDict, ai, FALSE)

\* C3: a non-empty value chosen from scraped and ATTOM (the value the same
\* call returns with ai = None) is the output whatever the ai argument holds;
\* a field whose output differs from that choice had no non-empty scraped or
\* ATTOM value and holds the AI guess.  (A call whose ai argument is None or
\* empty is itself the call with ai = None.)
C3_AiNeverOverrides ==
    (Called /\ DictTruthy(ai)) =>
        LET chosenId == build_identification(attom, scraped, NoneDict, harris)
            chosenLoc == build_location(attom, scraped, NoneDict, harris)
            guess == OrEmpty(ai)
        IN /\ \A f \in IdentificationKeys :
                 \/ identification[f] = chosenId[f]
                 \/ (~Truthy(chosenId[f]) /\ identification[f] = Get(guess, f))
           /\ \A f \in LocationKeys :
                 \/ location[f] = chosenLoc[f]
                 \/ (~Truthy(chosenLoc[f]) /\ location[f] = Get(guess, f))

\* ATTOM gives a city, the AI guesses another one, and the ATTOM city stays
C3_Witness ==
    /\ Called
    /\ Truthy(Get(attom, "city"))
    /\ Truthy(AiGuess("City"))
    /\ location["City"] = attom["city"]
    /\ location["City"] # AiGuess("City")

-----------------------------------------------------------------------------
(* Claims on the address normalization *)

\* some substring of the text parses as a JSON object
HasJsonSubstring(text) ==
    \E i \in 1..Len(text) : \E j \in i..Len(text) : json_loads(SubSeq(text, i, j)).ok

\* the object the code parsed, if it parsed one
ParsedObject(text) == json_loads(BraceMatch(text).group)

\* C8: when no substring of the model's output parses as a JSON object, or
\* the parsed object has no "corrected_address" key, normalize_address
\* returns exactly the address it was given (both variants).
C8_FallsBackToOriginal ==
    npc = "normalized" =>
        ( ( \/ ~HasJsonSubstring(output_text)
            \/ ( /\ ParsedObject(output_text).ok
                 /\ "corrected_address" \notin DOMAIN ParsedObject(output_text).dict ) )
          => normalized = PyStr(address) )

\* braces were found in the text but what they enclose is not JSON, and the
\* typed address came back
C8_Witness ==
    /\ npc = "normalized"
    /\ BraceMatch(output_text).found
    /\ ~HasJsonSubstring(output_text)
    /\ normalized = PyStr(address)

\* C9: the value normalize_address returns, and the value handed to
\* fetch_attom after enforce_user_zip, is a string.
C9_NormalizedIsString ==
    npc \in {"normalized", "passed"} => IsStr(normalized)

-----------------------------------------------------------------------------
(* Claims on the structured Markdown *)

\* the tables the code parsed into a frame of two or more columns
ParsedTables ==
    {i \in 1..Len(structured_md) :
        /\ markdown_table_to_df(structured_md[i]).ok
        /\ Len(markdown_table_to_df(structured_md[i]).columns) >= 2}

\* the Field name and the Value a table row shows: the first and the last cell
FieldName(sec, r) == Strip(sec.rows[r][1])

ShownValue(sec, r) ==
    IF sec.rows[r][sec.cols] = "" THEN None ELSE Strip(sec.rows[r][sec.cols])

\* the rows of the parsed tables that carry a non-empty Field name
NamedRows ==
    {<<i, r>> \in ParsedTables \X (1..MaxRows + 1) :
        /\ r <= Len(structured_md[i].rows)
        /\ FieldName(structured_md[i], r) # ""}

Before(p, q) == p[1] < q[1] \/ (p[1] = q[1] /\ p[2] < q[2])

\* C10: a non-empty Field name that occurs in several table rows is mapped by
\* flat_kv to the Value of its last occurrence in document order, to None when
\* that Value is missing; and every non-empty Field name of every parsed table
\* of two or more columns is a key of flat_kv.
C10_LastWriteWins ==
    ppc = "done" =>
        /\ \A p \in NamedRows :
              LET sec == structured_md[p[1]]
                  same == {q \in NamedRows :
                              FieldName(structured_md[q[1]], q[2]) = FieldName(sec, p[2])}
              IN (Cardinality(same) >= 2 /\ \A q \in same : q = p \/ Before(q, p))
                    => /\ FieldName(sec, p[2]) \in DOMAIN flat_kv
                       /\ flat_kv[FieldName(sec, p[2])] = ShownValue(sec, p[2])
        /\ \A p \in NamedRows : FieldName(structured_md[p[1]], p[2]) \in DOMAIN flat_kv

-----------------------------------------------------------------------------
(* Claims on the run *)

Executed(stage) == \E i \in 1..Len(trace) : trace[i] = stage

Shown(msg) == \E i \in 1..Len(ui) : ui[i] = msg

\* C4: the scrape is executed only if the county ATTOM returned, trimmed and
\* lower-cased, is "harris" and an APN was returned (either variant).
C4_ScrapeOnlyForHarris ==
    Executed("scrape") =>
        /\ StripLower(Get(rattom, "county")) = "harris"
        /\ Truthy(Get(rattom, "apn"))

StageRank(stage) ==
    CASE stage = "normalize" -> 1
      [] stage = "attom" -> 2
      [] stage = "scrape" -> 3
      [] stage = "structure" -> 4
      [] stage = "ai_fill" -> 5
      [] stage = "merge" -> 6
      [] stage = "render" -> 7

\* C5: the stages of a run are executed in the order normalize, ATTOM lookup,
\* scrape, structure-by-model, (AI fill,) merge, render, each at most once.
C5_LinearPipeline ==
    \A i, j \in 1..Len(trace) : i < j => StageRank(trace[i]) < StageRank(trace[j])

\* a run of the first variant that went through every stage
C5_Witness ==
    /\ rpc = "finished"
    /\ trace = <<"normalize", "attom", "scrape", "structure", "ai_fill", "merge", "render">>

\* C6: a blank address, or an ATTOM lookup without usable data, stops the run
\* there: no later stage is executed, and in the ATTOM case an error message
\* is shown before stopping.
C6_StopsOnBlankOrNoData ==
    /\ ( (rpc # "click" /\ \A i \in 1..Len(address_input) : address_input[i] = " ")
           => (rpc = "stopped" /\ trace = <<>>) )
    /\ ( (rpc \in {"check", "stopped", "scrape", "structure", "ai_fill", "merge",
                   "render", "finished"}
            /\ Executed("attom") /\ AttomUnusable(rvariant, rattom))
           => /\ trace[Len(trace)] = "attom"
              /\ rpc \in {"check", "stopped"}
              /\ rpc = "stopped" =>
                    \/ Shown("error: ATTOM did not return data for this address.")
                    \/ Shown("error: APN not found") )

\* C7: a failure to split the address, a failure of the API call (transport
\* error, non-200 status, non-JSON body) or a failure of a browser step never
\* leaves its stage as an unhandled exception that aborts the run.
C7_FailuresCollapse ==
    failure # "none" => rpc # "crashed"

-----------------------------------------------------------------------------
(* Claims on enforce_user_zip *)

\* the positions of the 5-digit tokens of a string
ZipPositions(str) == {i \in 1..Len(str) : str[i] \in ZipTokens}

FirstZipPosition(str) == CHOOSE i \in ZipPositions(str) : \A j \in ZipPositions(str) : i <= j

\* both addresses hold a 5-digit token and their first ones differ
ZipsDiffer ==
    /\ zcorrected.t = "str"
    /\ ZipPositions(zoriginal) # {}
    /\ ZipPositions(zcorrected.v) # {}
    /\ zoriginal[FirstZipPosition(zoriginal)] # zcorrected.v[FirstZipPosition(zcorrected.v)]

\* C11: if both addresses contain a 5-digit token and their first 5-digit
\* tokens differ, enforce_user_zip returns the corrected address with only its
\* first 5-digit token replaced by the original's first one; in every other
\* case it returns the corrected address unchanged; and applying it again
\* with the same original returns its input unchanged.
C11_KeepsUserZip ==
    /\ zpc \in {"once", "twice"} =>
          IF ZipsDiffer
          THEN /\ zresult.t = "str"
               /\ Len(zresult.v) = Len(zcorrected.v)
               /\ \A i \in 1..Len(zcorrected.v) :
                     zresult.v[i] = IF i = FirstZipPosition(zcorrected.v)
                                    THEN zoriginal[FirstZipPosition(zoriginal)]
                                    ELSE zcorrected.v[i]
          ELSE zresult = zcorrected
    /\ zpc # "raised"
    /\ zpc = "twice" => zagain = zresult

\* the ZIP was replaced in a corrected address that holds a second 5-digit
\* token, and the second call has returned
C11_Witness ==
    /\ zpc = "twice"
    /\ ZipsDiffer
    /\ Cardinality(ZipPositions(zcorrected.v)) >= 2
    /\ zresult # zcorrected

-----------------------------------------------------------------------------
(* Claims on the browser session *)

\* C12: once the scrape step has created the browser driver, driver.quit()
\* has been called by the time the scrape function returns or raises,
\* whichever automation step fails (scrape_hcad_and_structure and scrape_hcad).
C12_DriverAlwaysQuit ==
    Executed("scrape") => driver = "quit"

-----------------------------------------------------------------------------
(* Claims on the scroll loop *)

\* C13: the scroll loop is left exactly at the first iteration whose height
\* read equals the height read in the iteration before (0 before the first),
\* so a page of non-zero height takes at least two iterations; once the page
\* height has stopped changing the loop is eventually left; while the height
\* changes at every scroll the loop goes on, with no bound on the iterations.
C13_ScrollLoopExits ==
    /\ [][spc = "loop" => ((spc' = "done") <=> (new_h' = last_h))]_scrollVars
    /\ []((spc = "done" /\ new_h # 0) => iterations >= 2)
    /\ (settled ~> (spc = "done"))

\* the loop was left on a settled page of non-zero height after its height
\* had been read at least twice
C13_Witness ==
    /\ spc = "done"
    /\ settled
    /\ new_h # 0
    /\ new_h = last_h
    /\ iterations >= 2

-----------------------------------------------------------------------------
(* Claims on the key sets *)

\* C14: build_identification returns a mapping whose keys are exactly
\* IDENTIFICATION_FIELDS and build_location one whose keys are exactly
\* LOCATION_FIELDS, whatever attom, scraped, ai and harris are; ai_fill_missing
\* returns a mapping whose keys are exactly the requested target fields,
\* whatever keys the model's JSON holds.
C14_FixedKeySets ==
    /\ mpc = "done" =>
          /\ DOMAIN identification = IdentificationKeys
          /\ DOMAIN location = LocationKeys
    /\ mpc = "asked" => DOMAIN guesses = Range(target_fields)

\* the builders were called with a scraped key and an AI key that are no
\* field of either record
C14_Witness ==
    /\ mpc = "done"
    /\ harris
    /\ "Exemptions" \in DOMAIN scraped.map
    /\ "Zoning" \in DOMAIN ai.map

====
